---------------------------- MODULE Spec2Model ----------------------------
(***************************************************************************)
(* Model of the list-manager Lambda handlers of src/handler.py.            *)
(*                                                                         *)
(* Each handler invocation is a process.  Its atomic steps are cut at the  *)
(* points where it touches something outside itself: a read or write of    *)
(* the session store (Database.get / Database.set) or a call of the remote *)
(* Mastodon API.  The remote API and the contents of the request are the   *)
(* environment and are chosen nondeterministically from small sets.        *)
(*                                                                         *)
(* Text (cookie headers, urns, hosts) is a sequence of atoms.  An atom is  *)
(* a piece of text that contains none of the delimiters the code splits    *)
(* on; the delimiters "=", ";" and " " are atoms of their own.  A host     *)
(* name is a sequence of single characters, since the code slices it by    *)
(* character count.                                                        *)
(***************************************************************************)
EXTENDS Integers, Sequences, FiniteSets, TLC

VARIABLES
    store,      \* the session table: cookie -> item (Database._client's authTable)
    uuids,      \* number of uuid.uuid4() values drawn so far
    infos,      \* number of info invocations started so far
    pc,         \* pc[p]: where invocation p stands
    inv,        \* inv[p]: the locals of invocation p
    calls,      \* calls[p]: the remote-API calls invocation p has made, in order
    dbcalls     \* dbcalls[p]: the session-store operations invocation p has made

vars == <<store, uuids, infos, pc, inv, calls, dbcalls>>

\* ------------------------------------------------------------------ bounds

\* Sessions a run creates (uuid4 values drawn).
MaxSessions == 2
\* Pages one get_all drain receives before the remote must send the last one.
MaxPages == 2
\* Items on one page.
MaxPageLen == 1
\* Lists the remote lists call returns.
MaxLists == 1
\* info invocations a run starts.
MaxInfoRuns == 1

\* Concurrent invocations.
Procs == {"p1", "p2"}

\* ------------------------------------------------------------------- text

RECURSIVE IndexOf(_, _, _)
\* The first position >= i of atom d in s, or 0.
IndexOf(s, d, i) ==
    IF i > Len(s) THEN 0
    ELSE IF s[i] = d THEN i
    ELSE IndexOf(s, d, i + 1)

RECURSIVE Split(_, _)
\* Python's s.split(d): the pieces of s between occurrences of d (always >= 1 piece).
Split(s, d) ==
    LET i == IndexOf(s, d, 1)
    IN  IF i = 0 THEN <<s>>
        ELSE <<SubSeq(s, 1, i - 1)>> \o Split(SubSeq(s, i + 1, Len(s)), d)

Digit == <<"0", "1", "2", "3", "4", "5", "6", "7", "8", "9">>

RECURSIVE Str(_)
\* Python's str(n) for n >= 0: the decimal digits of n.
Str(n) ==
    IF n < 10 THEN <<Digit[n + 1]>>
    ELSE Str(n \div 10) \o <<Digit[(n % 10) + 1]>>

\* dict assignment res[k] = v
Put(f, k, v) == [x \in (DOMAIN f) \cup {k} |-> IF x = k THEN v ELSE f[x]]

EmptyDict == [x \in {} |-> <<>>]

\* json.dumps(x): a JSON text, kept as the object it encodes.
Json(x) == [json |-> x]

\* A Python string literal used as a body.
Text(s) == [text |-> s]

\* ---------------------------------------------------------- configuration

SessionCookieName == <<"list-manager-cookie">>

\* Config.access_token, the application-level token.
ConfigAccessToken == "Config.access_token"

\* access_token=None
NoToken == "None"

ApiBaseUrl == "https://hachyderm.io"

DefaultDomain == <<"hachyderm.io">>

Scopes == <<"read:lists", "read:follows", "read:accounts", "write:lists">>

LocalOrigin == "http://localhost:3000"

LocalCallback == "http://localhost:3000/callback"

PublicCallback == "https://acbeers.github.io/mastodonlm/callback"

AmazonSuffix == <<"a", "m", "a", "z", "o", "n", "a", "w", "s", ".", "c", "o", "m">>

\* ---------------------------------------------------------- session store

\* time.mktime(datetime.datetime.now().timetuple()): the runs explored are short
\* against the day a session lasts, so they happen at one instant.
Now == 1700000000

\* str(x) for a float x that holds the whole number n, as time.mktime returns:
\* the digits of n followed by ".0".
StrFloat(n) == Str(n) \o <<".", "0">>

\* Database.get(cookie): the item's token and domain, or None.
Database_get(db, cookie) ==
    IF cookie \in DOMAIN db
    THEN [found |-> TRUE, token |-> db[cookie].token, domain |-> db[cookie].domain]
    ELSE [found |-> FALSE, token |-> NoToken, domain |-> <<>>]

\* A Database.set that keys every item by the literal "key" instead of the cookie.
Database_set_FixedKey(db, cookie, token, domain, now) ==
    Put(db, <<"key">>, [token |-> token, domain |-> domain,
                        expires_at |-> StrFloat(now + 60 * 60 * 24)])

\* Database.set(cookie, token, domain="hachyderm.io") at time now: put_item.
Database_set(db, cookie, token, domain, now) ==
    Put(db, cookie,
        [token |-> token, domain |-> domain,
         expires_at |-> StrFloat(now + 60 * 60 * 24)])

\* parse_cookies(cookies): name -> value of the first ';'-piece of every cookie.
\* The tuple unpacking of arr[0].split("=") raises ValueError unless there are
\* exactly two pieces.
RECURSIVE parse_cookies_loop(_, _)
parse_cookies_loop(cookies, res) ==
    IF cookies = <<>> THEN [err |-> FALSE, map |-> res]
    ELSE LET arr   == Split(Head(cookies), ";")
             parts == Split(arr[1], "=")
         IN  IF Len(parts) # 2
             THEN [err |-> TRUE, map |-> res]
             ELSE parse_cookies_loop(Tail(cookies), Put(res, parts[1], parts[2]))

parse_cookies(cookies) == parse_cookies_loop(cookies, EmptyDict)

\* A get_mastodon that takes the token of some stored session, whatever the cookie.
get_mastodon_AnySession(db, cookie) ==
    IF DOMAIN db = {} THEN NoToken ELSE db[CHOOSE k \in DOMAIN db : TRUE].token

\* get_mastodon(cookie): the access token the client is built with.
get_mastodon(db, cookie) ==
    LET info == Database_get(db, cookie)
    IN  IF ~info.found THEN NoToken ELSE info.token

\* --------------------------------------------------------------- requests

\* uuid.uuid4().urn of the n-th uuid drawn.
Urn(n) == <<"urn:uuid:">> \o Str(n)

\* A session identifier no callback ever minted.
UnknownUrn == <<"urn:uuid:", "f", "f">>

\* What a client sends back for a cookie value: one "name=value" string.
CookiePair(name, value) == name \o <<"=">> \o value

OtherCookie == CookiePair(<<"theme">>, <<"dark">>)

\* A cookie whose value holds an '=' of its own, as base64 padding does.
PaddedCookie == CookiePair(<<"pref">>, <<"YQ", "=", "=">>)

\* A session cookie sent after a cookie whose value holds an '='.
PaddedThenSession == <<PaddedCookie, CookiePair(SessionCookieName, UnknownUrn)>>

\* A raw Cookie header text, "theme=dark; list-manager-cookie=...", as one string.
CookieHeaderText ==
    <<OtherCookie \o <<";", " ">> \o CookiePair(SessionCookieName, UnknownUrn)>>

\* The cookies lists a request may carry, given the sessions that exist.
CookieInputs(db) ==
    {<<>>, <<OtherCookie>>, <<PaddedCookie>>, PaddedThenSession, CookieHeaderText,
     <<CookiePair(SessionCookieName, UnknownUrn)>>}
    \cup {<<CookiePair(SessionCookieName, k)>> : k \in DOMAIN db}

Origins == {LocalOrigin, "none"}

Hosts == {<<"l", "o", "c", "a", "l", "h", "o", "s", "t">>,
          <<"x", ".">> \o AmazonSuffix}

\* The headers of a callback request.
CallbackHeaders == {[origin |-> o, host |-> h] : o \in Origins, h \in Hosts}

ListIds == {"L1", "L2"}

AccountIds == {7, 17, 170}

ListNames == {"friends"}

Codes == {"code1"}

\* The query parameters each CRUD handler reads.
CrudParams(h) ==
    CASE h = "create_list" -> {[list_name |-> n] : n \in ListNames}
      [] h = "delete_list" -> {[list_id |-> "L2"]}
      [] h = "remove_from_list" -> {[list_id |-> "L2", account_id |-> 17]}
      [] OTHER -> {[list_id |-> "L1", account_id |-> 7],
                   [list_id |-> "L2", account_id |-> 170]}

\* ------------------------------------------------------------ remote API

\* The access tokens the remote server issues: a new one at every code exchange.
Tokens == <<"tok1", "tok2", "tok3", "tok4">>

IssuedToken(n) == Tokens[n]

\* The exceptions of the Mastodon client library that handler.py names: the API
\* error class itself, two of its subclasses, and the illegal-argument error,
\* which is not an API error.
Errors == {"MastodonAPIError", "MastodonUnauthorizedError",
           "MastodonInternalServerError", "MastodonIllegalArgumentError"}

\* MastodonAPIError and its subclasses in the client library.
APIErrorClasses ==
    {"MastodonAPIError", "MastodonServerError", "MastodonInternalServerError",
     "MastodonBadGatewayError", "MastodonServiceUnavailableError",
     "MastodonGatewayTimeoutError", "MastodonNotFoundError",
     "MastodonUnauthorizedError"}

\* `except MastodonAPIError` catches the class and every subclass of it; the
\* illegal-argument and network errors are not among them.
IsMastodonAPIError(e) == e \in APIErrorClasses

\* What building the client, Mastodon(...), may do: return it, or raise one of the
\* two exceptions the handlers catch around get_mastodon.
ClientOutcomes == {"ok", "MastodonIllegalArgumentError", "MastodonInternalServerError"}

\* A remote call that raised e, where its result would be.
Failure(e) == [error |-> e]

\* A remote call that returned v.
Ok(v) == [ok |-> v]

\* The result record of an outcome o that returns v when it succeeds.
ResultOf(o, v) == IF o = "ok" THEN Ok(v) ELSE Failure(o)

Failures == {Failure(e) : e \in Errors}

\* The failures explored for the calls whose exceptions no handler catches (the
\* code exchange of callback, the calls of info after who-am-I): an API error and
\* one that is not.
LaterFailures == {Failure("MastodonAPIError"), Failure("MastodonIllegalArgumentError")}

IsFailure(r) == "error" \in DOMAIN r

\* The outcomes of an authenticated remote call made with token t: the server
\* never accepts a call that carries no token.
Outcomes(t) == IF t = NoToken THEN Errors ELSE Errors \cup {"ok"}

\* The numeric id of the account a token belongs to.
UserId(t) == 90 + (CHOOSE i \in 1..Len(Tokens) : Tokens[i] = t)

\* An account dict as the remote API returns it.
RemoteAccount(id) ==
    [id |-> id,
     display_name |-> <<"dn-">> \o Str(id),
     username |-> <<"user-">> \o Str(id),
     acct |-> <<"act-">> \o Str(id),
     note |-> <<"note-">> \o Str(id),
     avatar |-> <<"avatar-">> \o Str(id),
     following_count |-> 100]

\* The ids of the lists the remote lists call may return: the first lists of the
\* account, in the order of their ids.
RemoteLists == {SubSeq(<<"L1", "L2", "L3">>, 1, k) : k \in 0..MaxLists}

\* A list dict as the remote API returns it.
RemoteList(lid) == [id |-> lid, title |-> <<"title-", lid>>]

\* ------------------------------------------------------------ invocations

NoRet == [pending |-> TRUE]

\* The state of one get_all(func, *args): the fetches made so far (each a Call
\* with the page it returned), the accumulated res, the keyword arguments of the
\* next fetch, and whether the loop has ended.
NoDrain == [fetches |-> <<>>, res |-> <<>>, kwargs |-> EmptyDict, done |-> FALSE]

Idle ==
    [handler |-> "none", event |-> [none |-> TRUE], cookie |-> <<>>,
     token |-> NoToken, client |-> "none", me |-> [none |-> TRUE], ga |-> NoDrain, drains |-> <<>>,
     followers |-> <<>>, lists |-> <<>>, li |-> 0, ret |-> NoRet]

\* response(body, statusCode=200)
response(body, statusCode) == [statusCode |-> statusCode, body |-> body]

\* A catch-all around the handler body that answers with the generic error.
Raised_CaughtAs500(e) == [statusCode |-> 500, body |-> Text("ERROR")]

\* An exception that leaves the handler.
Raised(e) == [raised |-> e]

NoCookieResponse == response(Json([status |-> "no_cookie"]), 403)

\* One remote call as the client library sees it.
Call(method, args, kwargs, token, result) ==
    [method |-> method, args |-> args, kwargs |-> kwargs, token |-> token,
     result |-> result]

Finish(p, r) ==
    /\ pc' = [pc EXCEPT ![p] = "done"]
    /\ inv' = [inv EXCEPT ![p].ret = r]

\* ---------------------------------------------------------- CRUD handlers

CrudHandlers == {"add_to_list", "remove_from_list", "create_list", "delete_list"}

\* remove_from_list copied from add_to_list without changing the call.
CrudMethod_CopiedCall(h) ==
    CASE h = "add_to_list" -> "list_accounts_add"
      [] h = "remove_from_list" -> "list_accounts_add"
      [] h = "create_list" -> "list_create"
      [] h = "delete_list" -> "list_delete"

\* The remote mutation each CRUD handler makes.
CrudMethod(h) ==
    CASE h = "add_to_list" -> "list_accounts_add"
      [] h = "remove_from_list" -> "list_accounts_delete"
      [] h = "create_list" -> "list_create"
      [] h = "delete_list" -> "list_delete"

\* The arguments it passes, from the request's query parameters.
CrudArgs(h, q) ==
    CASE h = "add_to_list" -> <<q.list_id, <<q.account_id>>>>
      [] h = "remove_from_list" -> <<q.list_id, <<q.account_id>>>>
      [] h = "create_list" -> <<q.list_name>>
      [] h = "delete_list" -> <<q.list_id>>

\* cookies = parse_cookies(event["cookies"]); cookie = cookies.get(...); the
\* no-cookie return.  event["cookies"] raises KeyError when the field is absent.
CrudEntry(p, h) ==
    /\ pc[p] = "idle"
    /\ \E q \in CrudParams(h), withCookies \in BOOLEAN, cs \in CookieInputs(store) :
        LET event == IF withCookies
                     THEN [cookies |-> cs, queryStringParameters |-> q]
                     ELSE [queryStringParameters |-> q]
            started == [Idle EXCEPT !.handler = h, !.event = event]
        IN  \/ /\ "cookies" \notin DOMAIN event
               /\ cs = <<>>
               /\ pc' = [pc EXCEPT ![p] = "done"]
               /\ inv' = [inv EXCEPT ![p] = [started EXCEPT !.ret = Raised("KeyError")]]
            \/ /\ "cookies" \in DOMAIN event
               /\ LET cookies == parse_cookies(event.cookies)
                  IN  IF cookies.err
                      THEN /\ pc' = [pc EXCEPT ![p] = "done"]
                           /\ inv' = [inv EXCEPT ![p] =
                                        [started EXCEPT !.ret = Raised("ValueError")]]
                      ELSE IF SessionCookieName \notin DOMAIN cookies.map
                      THEN /\ pc' = [pc EXCEPT ![p] = "done"]
                           /\ inv' = [inv EXCEPT ![p] =
                                        [started EXCEPT !.ret = NoCookieResponse]]
                      ELSE /\ pc' = [pc EXCEPT ![p] = "crud_get_mastodon"]
                           /\ inv' = [inv EXCEPT ![p] =
                                        [started EXCEPT
                                            !.cookie = cookies.map[SessionCookieName]]]
    /\ UNCHANGED <<store, uuids, infos, calls, dbcalls>>

add_to_list(p) == CrudEntry(p, "add_to_list")

remove_from_list(p) == CrudEntry(p, "remove_from_list")

create_list(p) == CrudEntry(p, "create_list")

delete_list(p) == CrudEntry(p, "delete_list")

\* mastodon = get_mastodon(cookie): the store read the client is built from.
crud_get_mastodon(p) ==
    /\ pc[p] = "crud_get_mastodon"
    /\ dbcalls' = [dbcalls EXCEPT ![p] = Append(@, <<"get", inv[p].cookie>>)]
    /\ \E o \in ClientOutcomes :
        LET token == get_mastodon(store, inv[p].cookie)
        IN  IF o = "ok"
            THEN /\ inv' = [inv EXCEPT ![p].token = token, ![p].client = "built"]
                 /\ pc' = [pc EXCEPT ![p] = "crud_call"]
            ELSE /\ inv' = [inv EXCEPT ![p].token = token, ![p].client = o,
                                       ![p].ret = [statusCode |-> 500,
                                                   body |-> Text("ERROR")]]
                 /\ pc' = [pc EXCEPT ![p] = "done"]
    /\ UNCHANGED <<store, uuids, infos, calls>>

\* What a CRUD handler returns for the outcome of its mutation call.
CrudResult(o) ==
    IF o = "ok" THEN response(Text("OK"), 200)
    ELSE IF IsMastodonAPIError(o) THEN response(Text("ERROR"), 500)
    ELSE Raised(o)

\* The mutation call and the return.
crud_call(p) ==
    /\ pc[p] = "crud_call"
    /\ \E o \in Outcomes(inv[p].token) :
        /\ calls' = [calls EXCEPT ![p] =
                Append(@, Call(CrudMethod(inv[p].handler),
                               CrudArgs(inv[p].handler, inv[p].event.queryStringParameters),
                               EmptyDict, inv[p].token, ResultOf(o, "None")))]
        /\ Finish(p, CrudResult(o))
    /\ UNCHANGED <<store, uuids, infos, dbcalls>>

\* --------------------------------------------------------------- auth flow

\* make_redirect_url(event)
make_redirect_url(event) ==
    IF event.headers.origin = LocalOrigin THEN LocalCallback ELSE PublicCallback

\* s[-n:]
Suffix(s, n) == SubSeq(s, IF Len(s) > n THEN Len(s) - n + 1 ELSE 1, Len(s))

\* make_cookie_options(event)
make_cookie_options(event) ==
    IF Suffix(event.headers.host, 13) = AmazonSuffix
    THEN <<"Domain", "=", "amazonaws.com", ";", " ", "SameSite", "=", "None", ";",
           " ", "Secure", ";", " ">>
    ELSE <<"Domain", "=", "localhost", ";", " ">>

\* The authorization URL the client library builds for these arguments.
AuthRequestUrl(scopes, redirect_uris) ==
    [base |-> ApiBaseUrl, path |-> "/oauth/authorize", scope |-> scopes,
     redirect_uri |-> redirect_uris]

\* auth: parse the cookies (event.get("cookies", [])) and look for a session.
auth(p) ==
    /\ pc[p] = "idle"
    /\ \E o \in Origins, withCookies \in BOOLEAN, cs \in CookieInputs(store) :
        LET headers == [origin |-> o]
            event == IF withCookies
                     THEN [cookies |-> cs, headers |-> headers]
                     ELSE [headers |-> headers]
            started == [Idle EXCEPT !.handler = "auth", !.event = event]
            cookies == parse_cookies(IF "cookies" \in DOMAIN event
                                     THEN event.cookies ELSE <<>>)
        IN  /\ withCookies \/ cs = <<>>
            /\ IF cookies.err
               THEN /\ pc' = [pc EXCEPT ![p] = "done"]
                    /\ inv' = [inv EXCEPT ![p] =
                                 [started EXCEPT !.ret = Raised("ValueError")]]
               ELSE IF SessionCookieName \notin DOMAIN cookies.map
               THEN /\ pc' = [pc EXCEPT ![p] = "auth_url"]
                    /\ inv' = [inv EXCEPT ![p] = started]
               ELSE /\ pc' = [pc EXCEPT ![p] = "auth_get_mastodon"]
                    /\ inv' = [inv EXCEPT ![p] =
                                 [started EXCEPT !.cookie = cookies.map[SessionCookieName]]]
    /\ UNCHANGED <<store, uuids, infos, calls, dbcalls>>

\* test = get_mastodon(cookie)
auth_get_mastodon(p) ==
    /\ pc[p] = "auth_get_mastodon"
    /\ dbcalls' = [dbcalls EXCEPT ![p] = Append(@, <<"get", inv[p].cookie>>)]
    /\ \E o \in ClientOutcomes :
        LET token == get_mastodon(store, inv[p].cookie)
        IN  IF o = "ok"
            THEN /\ inv' = [inv EXCEPT ![p].token = token, ![p].client = "built"]
                 /\ pc' = [pc EXCEPT ![p] = "auth_me"]
            ELSE IF IsMastodonAPIError(o)
            THEN /\ inv' = [inv EXCEPT ![p].token = token, ![p].client = o]
                 /\ pc' = [pc EXCEPT ![p] = "auth_url"]
            ELSE /\ inv' = [inv EXCEPT ![p].token = token, ![p].client = o,
                                       ![p].ret = Raised(o)]
                 /\ pc' = [pc EXCEPT ![p] = "done"]
    /\ UNCHANGED <<store, uuids, infos, calls>>

\* auth that ignores a valid session and always starts the oAuth flow.
AuthMeResult_AlwaysLogin(o) ==
    IF o = "ok" \/ IsMastodonAPIError(o) THEN "login" ELSE "raise"

\* What auth does with the outcome of test.me(): "return", "login" (drop through
\* to the oAuth flow) or "raise".
AuthMeResult(o) ==
    IF o = "ok" THEN "return"
    ELSE IF IsMastodonAPIError(o) THEN "login"
    ELSE "raise"

\* test.me() and the already-logged-in return
auth_me(p) ==
    /\ pc[p] = "auth_me"
    /\ \E o \in Outcomes(inv[p].token) :
        /\ calls' = [calls EXCEPT ![p] =
                Append(@, Call("me", <<>>, EmptyDict, inv[p].token,
                               ResultOf(o, RemoteAccount(UserId(inv[p].token)))))]
        /\ CASE AuthMeResult(o) = "return" ->
                    Finish(p, [statusCode |-> 200, body |-> Json([status |-> "OK"])])
             [] AuthMeResult(o) = "login" ->
                    /\ pc' = [pc EXCEPT ![p] = "auth_url"]
                    /\ UNCHANGED inv
             [] OTHER -> Finish(p, Raised(o))
    /\ UNCHANGED <<store, uuids, infos, dbcalls>>

\* The redirect URL, the application's own client, the authorization URL and the
\* return.  No except clause covers the construction of the client: an exception
\* it raises leaves the handler before any call.
auth_url(p) ==
    /\ pc[p] = "auth_url"
    /\ \E o \in ClientOutcomes :
        LET redirect_url == make_redirect_url(inv[p].event)
            url == AuthRequestUrl(Scopes, redirect_url)
        IN  IF o = "ok"
            THEN /\ calls' = [calls EXCEPT ![p] =
                        Append(@, Call("auth_request_url", <<>>,
                                       [scopes |-> Scopes, redirect_uris |-> redirect_url],
                                       ConfigAccessToken, url))]
                 /\ Finish(p, response(Json([url |-> url]), 200))
            ELSE /\ Finish(p, Raised(o))
                 /\ UNCHANGED calls
    /\ UNCHANGED <<store, uuids, infos, dbcalls>>

\* A Set-Cookie header with the lifetime in hours.
SetCookieHeader_HoursLifetime(cookie, cookie_options) ==
    SessionCookieName \o <<"=">> \o cookie \o <<";", " ">> \o cookie_options
        \o <<" ", "Max-Age", "=">> \o Str(24)

\* The Set-Cookie header value callback builds.
SetCookieHeader(cookie, cookie_options) ==
    SessionCookieName \o <<"=">> \o cookie \o <<";", " ">> \o cookie_options
        \o <<" ", "Max-Age", "=">> \o Str(60 * 60 * 24)

\* callback up to the token: the application's own client, the code exchange and
\* the new session identifier.  No except clause covers the construction of the
\* client or the exchange: an exception either raises leaves the handler.
callback(p) ==
    /\ pc[p] = "idle"
    /\ uuids < MaxSessions
    /\ \E code \in Codes, hd \in CallbackHeaders, o \in ClientOutcomes :
        LET event == [headers |-> hd, queryStringParameters |-> [code |-> code]]
            started == [Idle EXCEPT !.handler = "callback", !.event = event]
            redirect_url == make_redirect_url(event)
        IN  IF o # "ok"
            THEN /\ pc' = [pc EXCEPT ![p] = "done"]
                 /\ inv' = [inv EXCEPT ![p] = [started EXCEPT !.client = o,
                                                               !.ret = Raised(o)]]
                 /\ UNCHANGED <<calls, uuids>>
            ELSE \E r \in {Ok(IssuedToken(uuids + 1))} \cup LaterFailures :
                 /\ calls' = [calls EXCEPT ![p] =
                        Append(@, Call("log_in", <<>>,
                                       [code |-> event.queryStringParameters.code,
                                        redirect_uri |-> redirect_url, scopes |-> Scopes],
                                       ConfigAccessToken,
                                       r))]
                 /\ IF IsFailure(r)
                    THEN /\ pc' = [pc EXCEPT ![p] = "done"]
                         /\ inv' = [inv EXCEPT ![p] =
                                      [started EXCEPT !.ret = Raised(r.error)]]
                         /\ UNCHANGED uuids
                    ELSE /\ pc' = [pc EXCEPT ![p] = "callback_set"]
                         /\ inv' = [inv EXCEPT ![p] =
                                      [started EXCEPT !.token = r.ok,
                                                      !.cookie = Urn(uuids + 1)]]
                         /\ uuids' = uuids + 1
    /\ UNCHANGED <<store, infos, dbcalls>>

\* Database.set(cookie, token) and the response.
callback_set(p) ==
    /\ pc[p] = "callback_set"
    /\ store' = Database_set(store, inv[p].cookie, inv[p].token, DefaultDomain, Now)
    /\ dbcalls' = [dbcalls EXCEPT ![p] = Append(@, <<"set", inv[p].cookie>>)]
    /\ Finish(p, [statusCode |-> 200,
                  headers |-> ("Set-Cookie" :>
                      SetCookieHeader(inv[p].cookie, make_cookie_options(inv[p].event))),
                  body |-> Text("{\"status\":\"OK\"}")])
    /\ UNCHANGED <<uuids, infos, calls>>

\* ------------------------------------------------------------------- info

\* The sequences of at most n distinct elements of S.
DistinctSeqs(S, n) ==
    {q \in UNION {[1..k -> S] : k \in 0..n} :
        \A i, j \in 1..Len(q) : i # j => q[i] # q[j]}

\* The max_id cursor page number k carries: an id below those of the pages so far.
PageCursor(k) == Str(900 - k)

\* The pages the remote may return as page number k of a drain that has already
\* delivered the accounts of res: accounts it has not delivered yet, and a
\* _pagination_next attribute only on a page that has items and is not the last
\* one the bound allows.
Pages(res, k) ==
    LET seen == {res[i].id : i \in 1..Len(res)}
        items == {[i \in 1..Len(q) |-> RemoteAccount(q[i])] :
                    q \in DistinctSeqs(AccountIds \ seen, MaxPageLen)}
    IN  {[items |-> it] : it \in items}
        \cup {[items |-> it, _pagination_next |-> [max_id |-> PageCursor(k)]] :
                it \in (IF k < MaxPages THEN items \ {<<>>} ELSE {})}

\* A get_all loop that takes an empty page, not a missing cursor, as the end.
get_all_step_EndsOnEmptyPage(ga, call, page) ==
    [fetches |-> Append(ga.fetches, call), res |-> ga.res \o page.items,
     kwargs |-> IF "_pagination_next" \in DOMAIN page
                THEN [max_id |-> page._pagination_next.max_id] ELSE ga.kwargs,
     done |-> page.items = <<>>]

\* A get_all loop that never passes the cursor on.
get_all_step_NoCursor(ga, call, page) ==
    IF "_pagination_next" \in DOMAIN page
    THEN [fetches |-> Append(ga.fetches, call), res |-> ga.res \o page.items,
          kwargs |-> ga.kwargs, done |-> FALSE]
    ELSE [fetches |-> Append(ga.fetches, call), res |-> ga.res \o page.items,
          kwargs |-> ga.kwargs, done |-> TRUE]

\* The body of get_all's loop for a fetched page: res.extend(page), then the
\* keyword arguments of the next fetch, or the break when reading
\* page._pagination_next raises AttributeError.
get_all_step(ga, call, page) ==
    IF "_pagination_next" \in DOMAIN page
    THEN [fetches |-> Append(ga.fetches, call), res |-> ga.res \o page.items,
          kwargs |-> [max_id |-> page._pagination_next.max_id], done |-> FALSE]
    ELSE [fetches |-> Append(ga.fetches, call), res |-> ga.res \o page.items,
          kwargs |-> ga.kwargs, done |-> TRUE]

\* The get_all a fetch belongs to: a new one when the last one has ended.
CurrentDrain(ga) == IF ga.done THEN NoDrain ELSE ga

\* A completed get_all, as the handler sees it.
Drained(func, args, token, res) ==
    [func |-> func, args |-> args, token |-> token, res |-> res]

\* f["lists"] = [] for every f of followers
InitLists(followers) ==
    [i \in 1..Len(followers) |->
        [k \in (DOMAIN followers[i]) \cup {"lists"} |->
            IF k = "lists" THEN <<>> ELSE followers[i][k]]]

\* A followermap keyed by str(id) and looked up by the integer id: no id is found.
followermap_StringKeys(followers, id) == 0

\* followermap = {x["id"]: x for x in followers}: the position of the dict an id
\* maps to (a later entry of the same id replaces an earlier one), 0 if none.
followermap(followers, id) ==
    LET at == {i \in 1..Len(followers) : followers[i].id = id}
    IN  IF at = {} THEN 0 ELSE CHOOSE i \in at : \A j \in at : j <= i

RECURSIVE JoinList(_, _, _)
\* for acct in accts: append the list id to the followed account's lists
JoinList(followers, accts, lid) ==
    IF accts = <<>> THEN followers
    ELSE LET aid == Head(accts).id
             i == followermap(followers, aid)
         IN  JoinList(IF i # 0
                      THEN [followers EXCEPT ![i].lists = Append(@, lid)]
                      ELSE followers,
                      Tail(accts), lid)

OutFields == {"id", "lists", "display_name", "username", "acct", "note", "avatar"}

\* outpeople that converts the id and keeps every field of the account.
outpeople_AllFields(followers) ==
    [i \in 1..Len(followers) |->
        [k \in DOMAIN followers[i] |->
            IF k = "id" THEN Str(followers[i][k]) ELSE followers[i][k]]]

\* outpeople: the fixed fields of every follower, the id as a string
outpeople(followers) ==
    [i \in 1..Len(followers) |->
        [k \in OutFields |-> IF k = "id" THEN Str(followers[i][k]) ELSE followers[i][k]]]

\* The output object of info.
InfoOutput(me, lists, followers, info) ==
    LET domain == IF ~info.found THEN <<>> ELSE info.domain
        meinfo == [username |-> me.username,
                   acct |-> me.acct \o <<"@">> \o domain,
                   display_name |-> me.display_name]
    IN  [lists |-> lists, followers |-> outpeople(followers), me |-> meinfo]

\* What info returns at the end: json.dumps(output).
InfoReturn(output) == Json(output)

\* info: parse the cookies (event.get("cookies", [])) and the no-cookie return.
info(p) ==
    /\ pc[p] = "idle"
    /\ infos < MaxInfoRuns
    /\ infos' = infos + 1
    /\ \E withCookies \in BOOLEAN, cs \in CookieInputs(store) :
        LET headers == [origin |-> "none"]
            event == IF withCookies
                     THEN [cookies |-> cs, headers |-> headers]
                     ELSE [headers |-> headers]
            started == [Idle EXCEPT !.handler = "info", !.event = event]
            cookies == parse_cookies(IF "cookies" \in DOMAIN event
                                     THEN event.cookies ELSE <<>>)
        IN  /\ withCookies \/ cs = <<>>
            /\ IF cookies.err
               THEN /\ pc' = [pc EXCEPT ![p] = "done"]
                    /\ inv' = [inv EXCEPT ![p] =
                                 [started EXCEPT !.ret = Raised("ValueError")]]
               ELSE IF SessionCookieName \notin DOMAIN cookies.map
               THEN /\ pc' = [pc EXCEPT ![p] = "done"]
                    /\ inv' = [inv EXCEPT ![p] = [started EXCEPT !.ret = NoCookieResponse]]
               ELSE /\ pc' = [pc EXCEPT ![p] = "info_get_mastodon"]
                    /\ inv' = [inv EXCEPT ![p] =
                                 [started EXCEPT !.cookie = cookies.map[SessionCookieName]]]
    /\ UNCHANGED <<store, uuids, calls, dbcalls>>

\* mastodon = get_mastodon(cookie)
info_get_mastodon(p) ==
    /\ pc[p] = "info_get_mastodon"
    /\ dbcalls' = [dbcalls EXCEPT ![p] = Append(@, <<"get", inv[p].cookie>>)]
    /\ \E o \in ClientOutcomes :
        LET token == get_mastodon(store, inv[p].cookie)
        IN  IF o = "ok"
            THEN /\ inv' = [inv EXCEPT ![p].token = token, ![p].client = "built"]
                 /\ pc' = [pc EXCEPT ![p] = "info_me"]
            ELSE /\ inv' = [inv EXCEPT ![p].token = token, ![p].client = o,
                                       ![p].ret = [statusCode |-> 500,
                                                   body |-> Text("ERROR")]]
                 /\ pc' = [pc EXCEPT ![p] = "done"]
    /\ UNCHANGED <<store, uuids, infos, calls>>

\* info without its except clause for MastodonIllegalArgumentError.
InfoMeResult_NoIllegalArgumentClause(o) ==
    CASE o = "ok" -> [goon |-> TRUE]
      [] o = "MastodonInternalServerError" -> [statusCode |-> 500, body |-> Text("ERROR")]
      [] o = "MastodonUnauthorizedError" -> NoCookieResponse
      [] OTHER -> Raised(o)

\* What info does with the outcome of mastodon.me(): "go on", or the response.
InfoMeResult(o) ==
    CASE o = "ok" -> [goon |-> TRUE]
      [] o = "MastodonIllegalArgumentError" -> [statusCode |-> 500, body |-> Text("ERROR")]
      [] o = "MastodonInternalServerError" -> [statusCode |-> 500, body |-> Text("ERROR")]
      [] o = "MastodonUnauthorizedError" -> NoCookieResponse
      [] OTHER -> Raised(o)

\* me = mastodon.me()
info_me(p) ==
    /\ pc[p] = "info_me"
    /\ \E o \in Outcomes(inv[p].token) :
        LET me == RemoteAccount(UserId(inv[p].token))
        IN  /\ calls' = [calls EXCEPT ![p] =
                    Append(@, Call("me", <<>>, EmptyDict, inv[p].token, ResultOf(o, me)))]
            /\ IF "goon" \in DOMAIN InfoMeResult(o)
               THEN /\ pc' = [pc EXCEPT ![p] = "info_following"]
                    /\ inv' = [inv EXCEPT ![p].me = me]
               ELSE Finish(p, InfoMeResult(o))
    /\ UNCHANGED <<store, uuids, infos, dbcalls>>

\* followers = get_all(mastodon.account_following, me_id), one fetch at a time,
\* then the empty lists
info_following(p) ==
    /\ pc[p] = "info_following"
    /\ LET ga == CurrentDrain(inv[p].ga)
           args == <<inv[p].me.id>>
       IN  \E r \in Pages(ga.res, Len(ga.fetches) + 1) \cup LaterFailures :
            LET call == Call("account_following", args, ga.kwargs, inv[p].token, r)
                nga == get_all_step(ga, call, r)
            IN  IF IsFailure(r)
                THEN /\ pc' = [pc EXCEPT ![p] = "done"]
                     /\ inv' = [inv EXCEPT ![p].ret = Raised(r.error),
                                           ![p].ga = [ga EXCEPT !.fetches = Append(@, call)]]
                ELSE IF ~nga.done
                THEN /\ inv' = [inv EXCEPT ![p].ga = nga]
                     /\ UNCHANGED pc
                ELSE /\ inv' = [inv EXCEPT ![p].ga = nga,
                                  ![p].followers = InitLists(nga.res),
                                  ![p].drains = Append(@,
                                      Drained("account_following", args, inv[p].token,
                                              nga.res))]
                     /\ pc' = [pc EXCEPT ![p] = "info_lists"]
    /\ UNCHANGED <<store, uuids, infos, calls, dbcalls>>

\* lists = mastodon.lists()
info_lists(p) ==
    /\ pc[p] = "info_lists"
    /\ \E r \in {[ok |-> q] : q \in RemoteLists}
                \cup LaterFailures :
        LET lists == IF IsFailure(r) THEN <<>>
                     ELSE [i \in 1..Len(r.ok) |-> RemoteList(r.ok[i])]
        IN  /\ calls' = [calls EXCEPT ![p] =
                    Append(@, Call("lists", <<>>, EmptyDict, inv[p].token,
                                   IF IsFailure(r) THEN r ELSE Ok(lists)))]
            /\ IF IsFailure(r)
               THEN Finish(p, Raised(r.error))
               ELSE /\ inv' = [inv EXCEPT ![p].lists = lists, ![p].li = 1]
                    /\ pc' = [pc EXCEPT ![p] =
                            IF lists = <<>> THEN "info_output" ELSE "info_list_accounts"]
    /\ UNCHANGED <<store, uuids, infos, dbcalls>>

\* accts = get_all(mastodon.list_accounts, l["id"]) for the list at hand, one
\* fetch at a time, then the join of its members with the followers
info_list_accounts(p) ==
    /\ pc[p] = "info_list_accounts"
    /\ LET ga == CurrentDrain(inv[p].ga)
           l == inv[p].lists[inv[p].li]
           args == <<l.id>>
       IN  \E r \in Pages(ga.res, Len(ga.fetches) + 1) \cup LaterFailures :
            LET call == Call("list_accounts", args, ga.kwargs, inv[p].token, r)
                nga == get_all_step(ga, call, r)
            IN  IF IsFailure(r)
                THEN /\ pc' = [pc EXCEPT ![p] = "done"]
                     /\ inv' = [inv EXCEPT ![p].ret = Raised(r.error),
                                           ![p].ga = [ga EXCEPT !.fetches = Append(@, call)]]
                ELSE IF ~nga.done
                THEN /\ inv' = [inv EXCEPT ![p].ga = nga]
                     /\ UNCHANGED pc
                ELSE /\ inv' = [inv EXCEPT ![p].ga = nga,
                                  ![p].followers = JoinList(@, nga.res, l.id),
                                  ![p].drains = Append(@,
                                      Drained("list_accounts", args, inv[p].token,
                                              nga.res)),
                                  ![p].li = @ + 1]
                     /\ pc' = [pc EXCEPT ![p] =
                            IF inv[p].li = Len(inv[p].lists)
                            THEN "info_output" ELSE "info_list_accounts"]
    /\ UNCHANGED <<store, uuids, infos, calls, dbcalls>>

\* info = Database.get(cookie), the output and the return
info_output(p) ==
    /\ pc[p] = "info_output"
    /\ dbcalls' = [dbcalls EXCEPT ![p] = Append(@, <<"get", inv[p].cookie>>)]
    /\ pc' = [pc EXCEPT ![p] = "done"]
    /\ inv' = [inv EXCEPT
            ![p].ret = InfoReturn(InfoOutput(inv[p].me, inv[p].lists, inv[p].followers,
                                             Database_get(store, inv[p].cookie))),
            ![p].ga = NoDrain]
    /\ UNCHANGED <<store, uuids, infos, calls>>

\* ------------------------------------------------------------------ frame

\* The invocation has returned; its slot takes the next request.
Return(p) ==
    /\ pc[p] = "done"
    /\ pc' = [pc EXCEPT ![p] = "idle"]
    /\ inv' = [inv EXCEPT ![p] = Idle]
    /\ calls' = [calls EXCEPT ![p] = <<>>]
    /\ dbcalls' = [dbcalls EXCEPT ![p] = <<>>]
    /\ UNCHANGED <<store, uuids, infos>>

Init ==
    /\ store = EmptyDict
    /\ uuids = 0
    /\ infos = 0
    /\ pc = [p \in Procs |-> "idle"]
    /\ inv = [p \in Procs |-> Idle]
    /\ calls = [p \in Procs |-> <<>>]
    /\ dbcalls = [p \in Procs |-> <<>>]

Next ==
    \E p \in Procs :
        \/ add_to_list(p)
        \/ remove_from_list(p)
        \/ create_list(p)
        \/ delete_list(p)
        \/ crud_get_mastodon(p)
        \/ crud_call(p)
        \/ auth(p)
        \/ auth_get_mastodon(p)
        \/ auth_me(p)
        \/ auth_url(p)
        \/ callback(p)
        \/ callback_set(p)
        \/ info(p)
        \/ info_get_mastodon(p)
        \/ info_me(p)
        \/ info_following(p)
        \/ info_lists(p)
        \/ info_list_accounts(p)
        \/ info_output(p)
        \/ Return(p)

Spec == Init /\ [][Next]_vars

\* A handler, once invoked, runs to its end: the runtime keeps executing the
\* fetches of a get_all that is under way.
GetAllFairness ==
    \A p \in Procs : WF_vars(info_following(p)) /\ WF_vars(info_list_accounts(p))

LiveSpec == Spec /\ GetAllFairness

\* ----------------------------------------------------------------- claims

AuthenticatedHandlers == CrudHandlers \cup {"info"}

\* The number of atoms d in s.
Count(s, d) == Cardinality({i \in 1..Len(s) : s[i] = d})

\* c is one plain name=value pair.
PlainPair(c) == Count(c, "=") = 1 /\ Count(c, ";") = 0

\* c is a pair named list-manager-cookie.
IsSessionPair(c) ==
    /\ Len(c) > Len(SessionCookieName)
    /\ SubSeq(c, 1, Len(SessionCookieName) + 1) = SessionCookieName \o <<"=">>

\* The request carries plain pairs only, if it carries cookies at all.
PlainCookies(event) ==
    "cookies" \in DOMAIN event =>
        \A i \in 1..Len(event.cookies) : PlainPair(event.cookies[i])

\* The request carries no list-manager-cookie.
NoSessionCookie(event) ==
    "cookies" \in DOMAIN event =>
        \A i \in 1..Len(event.cookies) : ~IsSessionPair(event.cookies[i])

\* The request carries a list-manager-cookie.
HasSessionCookie(event) == ~NoSessionCookie(event)

\* Every remote call invocation p has made, paged fetches included.
NoRemoteCall(p) ==
    calls[p] = <<>> /\ inv[p].ga.fetches = <<>> /\ inv[p].drains = <<>>

IsNoCookie403(r) ==
    /\ "statusCode" \in DOMAIN r
    /\ r.statusCode = 403
    /\ r.body = [json |-> [status |-> "no_cookie"]]

\* C1: info and the four CRUD handlers, called with a request that carries no
\* list-manager-cookie (a request without a cookies field included), return 403
\* with status no_cookie and make no remote call.
C1_NoCookie403 ==
    \A p \in Procs :
        (/\ pc[p] = "done"
         /\ inv[p].handler \in AuthenticatedHandlers
         /\ PlainCookies(inv[p].event)
         /\ NoSessionCookie(inv[p].event))
        => IsNoCookie403(inv[p].ret) /\ NoRemoteCall(p)

\* The outcome of the who-am-I call of invocation p, "none" before it.
MeOutcome(p) ==
    IF calls[p] = <<>> \/ calls[p][1].method # "me" THEN "none"
    ELSE IF IsFailure(calls[p][1].result) THEN calls[p][1].result.error
    ELSE "ok"

\* C2: in info with a session cookie, an unauthorized who-am-I gives 403 with
\* status no_cookie, an illegal-argument or internal-server one gives 500, and in
\* all three cases who-am-I stays the only remote call of the invocation.
C2_InfoWhoAmIErrors ==
    \A p \in Procs :
        (inv[p].handler = "info" /\ HasSessionCookie(inv[p].event)) =>
            /\ MeOutcome(p) = "MastodonUnauthorizedError" =>
                    pc[p] = "done" /\ IsNoCookie403(inv[p].ret)
            /\ MeOutcome(p) \in {"MastodonIllegalArgumentError",
                                 "MastodonInternalServerError"} =>
                    /\ pc[p] = "done"
                    /\ "statusCode" \in DOMAIN inv[p].ret
                    /\ inv[p].ret.statusCode = 500
            /\ MeOutcome(p) \in {"MastodonUnauthorizedError",
                                 "MastodonIllegalArgumentError",
                                 "MastodonInternalServerError"} =>
                    /\ Len(calls[p]) = 1
                    /\ inv[p].ga.fetches = <<>>
                    /\ inv[p].drains = <<>>

\* An info invocation over a stored session has ended on an internal server error
\* of who-am-I.
C2_Witness ==
    \E p \in Procs :
        /\ pc[p] = "done"
        /\ inv[p].handler = "info"
        /\ inv[p].cookie \in DOMAIN store
        /\ MeOutcome(p) = "MastodonInternalServerError"
        /\ inv[p].ret.statusCode = 500

\* C3: a CRUD handler called with a session cookie that has no entry in the
\* store, or whose stored token the remote rejects as unauthorized, returns 403.
C3_BadCookie403 ==
    \A p \in Procs :
        (/\ pc[p] = "done"
         /\ inv[p].handler \in CrudHandlers
         /\ PlainCookies(inv[p].event)
         /\ HasSessionCookie(inv[p].event)
         /\ \/ inv[p].token = NoToken
            \/ /\ calls[p] # <<>>
               /\ calls[p][1].result = Failure("MastodonUnauthorizedError"))
        => "statusCode" \in DOMAIN inv[p].ret /\ inv[p].ret.statusCode = 403

\* The remote mutation and the arguments the request of invocation p asks for.
ExpectedMutation(p) ==
    LET q == inv[p].event.queryStringParameters
        h == inv[p].handler
    IN  CASE h = "create_list" -> [method |-> "list_create", args |-> <<q.list_name>>]
          [] h = "delete_list" -> [method |-> "list_delete", args |-> <<q.list_id>>]
          [] h = "add_to_list" ->
                [method |-> "list_accounts_add", args |-> <<q.list_id, <<q.account_id>>>>]
          [] h = "remove_from_list" ->
                [method |-> "list_accounts_delete",
                 args |-> <<q.list_id, <<q.account_id>>>>]

\* C4: a CRUD handler whose session resolves (the store has the cookie's token and
\* get_mastodon returns the client built with it) makes exactly one remote call, the
\* mutation of the handler with the identifiers of the query parameters, and
\* returns 200 "OK" when it succeeds and 500 "ERROR" when it raises an API error.
C4_OneMutation ==
    \A p \in Procs :
        (/\ inv[p].handler \in CrudHandlers
         /\ inv[p].client = "built"
         /\ inv[p].token # NoToken)
        => /\ Len(calls[p]) <= 1
           /\ NoRemoteCall(p) => pc[p] = "crud_call"
           /\ pc[p] = "done" =>
                /\ Len(calls[p]) = 1
                /\ calls[p][1].method = ExpectedMutation(p).method
                /\ calls[p][1].args = ExpectedMutation(p).args
                /\ calls[p][1].kwargs = EmptyDict
                /\ ~IsFailure(calls[p][1].result) =>
                        inv[p].ret = [statusCode |-> 200, body |-> [text |-> "OK"]]
                /\ calls[p][1].result \in {[error |-> "MastodonAPIError"],
                                           [error |-> "MastodonUnauthorizedError"],
                                           [error |-> "MastodonInternalServerError"]} =>
                        inv[p].ret = [statusCode |-> 500, body |-> [text |-> "ERROR"]]

\* add_to_list over a stored session has returned after a successful mutation.
C4_Witness ==
    \E p \in Procs :
        /\ pc[p] = "done"
        /\ inv[p].handler = "add_to_list"
        /\ inv[p].cookie \in DOMAIN store
        /\ inv[p].client = "built"
        /\ Len(calls[p]) = 1
        /\ ~IsFailure(calls[p][1].result)
        /\ inv[p].ret.statusCode = 200

\* C5: auth with a session cookie whose stored token who-am-I accepts returns 200
\* {status: OK}, asks for no authorization URL and writes nothing to the store.
C5_AuthAlreadyLoggedIn ==
    \A p \in Procs :
        (inv[p].handler = "auth" /\ MeOutcome(p) = "ok") =>
            /\ pc[p] = "done"
            /\ inv[p].ret = [statusCode |-> 200, body |-> [json |-> [status |-> "OK"]]]
            /\ \A i \in 1..Len(calls[p]) : calls[p][i].method # "auth_request_url"
            /\ \A i \in 1..Len(dbcalls[p]) : dbcalls[p][i][1] # "set"

\* auth over a stored session has returned after who-am-I succeeded.
C5_Witness ==
    \E p \in Procs :
        /\ pc[p] = "done"
        /\ inv[p].handler = "auth"
        /\ inv[p].cookie \in DOMAIN store
        /\ MeOutcome(p) = "ok"


\* C6: auth with no session cookie, or with one for which who-am-I raises an API
\* error, does not fail: it returns 200 with the authorization URL the client
\* builds for the fixed scopes and for the local callback exactly when the origin
\* is the local one.
C6_AuthStartsLogin ==
    \A p \in Procs :
        (/\ pc[p] = "done"
         /\ inv[p].handler = "auth"
         /\ \/ NoSessionCookie(inv[p].event)
            \/ MeOutcome(p) \in {"MastodonAPIError",
                                 "MastodonUnauthorizedError",
                                 "MastodonInternalServerError"})
        => /\ calls[p] # <<>>
           /\ LET last == calls[p][Len(calls[p])]
               IN  /\ last.method = "auth_request_url"
                   /\ last.kwargs.scopes =
                        <<"read:lists", "read:follows", "read:accounts", "write:lists">>
                   /\ last.kwargs.redirect_uris =
                        IF inv[p].event.headers.origin = "http://localhost:3000"
                        THEN "http://localhost:3000/callback"
                        ELSE "https://acbeers.github.io/mastodonlm/callback"
                   /\ inv[p].ret =
                        [statusCode |-> 200, body |-> [json |-> [url |-> last.result]]]

RECURSIVE LStrip(_)
\* s without its leading spaces
LStrip(s) == IF s # <<>> /\ Head(s) = " " THEN LStrip(Tail(s)) ELSE s

\* What a client keeps of a Set-Cookie header and sends back: its name=value pair.
SentBack(header) == Split(header, ";")[1]

\* The attributes of a Set-Cookie header.
Attributes(header) ==
    LET pieces == Split(header, ";")
    IN  {LStrip(pieces[i]) : i \in 2..Len(pieces)}

\* A callback that has returned its response.
CallbackDone(c) ==
    pc[c] = "done" /\ inv[c].handler = "callback" /\ "statusCode" \in DOMAIN inv[c].ret

\* Invocation q presents the cookie that callback c has set, and has read the store.
PresentsCookieOf(q, c) ==
    /\ "cookies" \in DOMAIN inv[q].event
    /\ inv[q].event.cookies = <<SentBack(inv[c].ret.headers["Set-Cookie"])>>
    /\ dbcalls[q] # <<>>

\* C7: after a successful callback the store holds, under exactly the identifier
\* of the Set-Cookie header (name list-manager-cookie, Max-Age 86400), the token
\* the code exchange returned, and a request that presents that cookie resolves,
\* through parse_cookies and the store, to that token.
C7_CallbackSession ==
    \A c \in Procs :
        CallbackDone(c) =>
            LET header == inv[c].ret.headers["Set-Cookie"]
                parsed == parse_cookies(<<SentBack(header)>>)
                token == calls[c][1].result.ok
            IN  /\ ~parsed.err
                /\ DOMAIN parsed.map = {<<"list-manager-cookie">>}
                /\ <<"Max-Age", "=", "8", "6", "4", "0", "0">> \in Attributes(header)
                /\ LET id == parsed.map[<<"list-manager-cookie">>]
                   IN  /\ dbcalls[c] = <<<<"set", id>>>>
                       /\ id \in DOMAIN store
                       /\ store[id].token = token
                       /\ Database_get(store, id).token = token
                /\ \A q \in Procs \ {c} : PresentsCookieOf(q, c) => inv[q].token = token

\* A callback has returned and another invocation has presented its cookie and
\* read the store.
C7_Witness ==
    \E c \in Procs :
        /\ CallbackDone(c)
        /\ \E q \in Procs \ {c} :
            /\ PresentsCookieOf(q, c)
            /\ inv[q].token = calls[c][1].result.ok

\* info has returned its aggregation.
InfoSucceeded(p) ==
    pc[p] = "done" /\ inv[p].handler = "info" /\ Len(calls[p]) = 2
        /\ ~IsFailure(calls[p][2].result) /\ "raised" \notin DOMAIN inv[p].ret

\* C8: every invocation that completes returns an object with a statusCode and a
\* body, and a successful info aggregation returns statusCode 200.
C8_ResponseObject ==
    \A p \in Procs :
        (pc[p] = "done" /\ "raised" \notin DOMAIN inv[p].ret) =>
            /\ "statusCode" \in DOMAIN inv[p].ret
            /\ "body" \in DOMAIN inv[p].ret
            /\ InfoSucceeded(p) => inv[p].ret.statusCode = 200

RECURSIVE ConcatItems(_)
\* The items of the pages of a sequence of fetches, in order.
ConcatItems(fetches) ==
    IF fetches = <<>> THEN <<>>
    ELSE Head(fetches).result.items \o ConcatItems(Tail(fetches))

HasCursor(page) == "_pagination_next" \in DOMAIN page

\* C9: get_all over pages p1..pn, of which only pn carries no cursor, returns the
\* items of p1..pn in order after exactly n fetches: the first with the fixed
\* arguments alone, the k-th with them and max_id = the cursor of page k-1.
C9_GetAllDrains ==
    \A p \in Procs :
        LET ga == inv[p].ga
            n == Len(ga.fetches)
        IN  ga.done =>
                /\ n >= 1
                /\ \A k \in 1..(n - 1) : HasCursor(ga.fetches[k].result)
                /\ ~HasCursor(ga.fetches[n].result)
                /\ ga.res = ConcatItems(ga.fetches)
                /\ inv[p].drains[Len(inv[p].drains)].res = ConcatItems(ga.fetches)
                /\ ga.fetches[1].kwargs = EmptyDict
                /\ \A k \in 2..n :
                    /\ ga.fetches[k].kwargs =
                         [max_id |-> ga.fetches[k - 1].result._pagination_next.max_id]
                    /\ ga.fetches[k].method = ga.fetches[1].method
                    /\ ga.fetches[k].args = ga.fetches[1].args

\* A get_all has ended after more than one page.
C9_Witness ==
    \E p \in Procs :
        /\ inv[p].ga.done
        /\ Len(inv[p].ga.fetches) >= 2
        /\ Len(inv[p].ga.res) >= 2

\* The ids of a sequence of account dicts.
Ids(accts) == {accts[i].id : i \in 1..Len(accts)}

\* The members the drained membership fetches of invocation p returned for list l.
Members(p, l) ==
    UNION {Ids(inv[p].drains[i].res) :
            i \in {j \in 1..Len(inv[p].drains) :
                    /\ inv[p].drains[j].func = "list_accounts"
                    /\ inv[p].drains[j].args = <<l>>}}

\* C10: the followers of info's output are the accounts of the drained following
\* fetch, one entry each and in its order; an entry's lists holds L exactly when
\* the account is among the members the drained membership fetch of L returned;
\* a member that is not followed appears nowhere.
C10_MembershipJoin ==
    \A p \in Procs :
        (InfoSucceeded(p) /\ "json" \in DOMAIN inv[p].ret) =>
            LET out == inv[p].ret.json.followers
                following == inv[p].drains[1].res
            IN  /\ inv[p].drains[1].func = "account_following"
                /\ Len(out) = Len(following)
                /\ \A i \in 1..Len(out) :
                    /\ out[i].id = Str(following[i].id)
                    /\ \A l \in ListIds :
                        (\E k \in 1..Len(out[i].lists) : out[i].lists[k] = l)
                            <=> following[i].id \in Members(p, l)
                /\ \A l \in ListIds : \A m \in Members(p, l) \ Ids(following) :
                    \A i \in 1..Len(out) : out[i].id # Str(m)

\* info has returned followers of which one is on a list and one is not, while a
\* list has a member that is not followed.
C10_Witness ==
    \E p \in Procs :
        /\ InfoSucceeded(p)
        /\ "json" \in DOMAIN inv[p].ret
        /\ \E i, j \in 1..Len(inv[p].ret.json.followers) :
            /\ inv[p].ret.json.followers[i].lists # <<>>
            /\ inv[p].ret.json.followers[j].lists = <<>>
        /\ \E l \in ListIds : Members(p, l) \ Ids(inv[p].drains[1].res) # {}

RECURSIVE ParseInt(_)
\* int(s) for a string of decimal digits
ParseInt(s) ==
    IF s = <<>> THEN 0
    ELSE ParseInt(SubSeq(s, 1, Len(s) - 1)) * 10
            + ((CHOOSE d \in 1..10 : Digit[d] = s[Len(s)]) - 1)

\* C11: every followers entry of info's output has exactly the fields id, lists,
\* display_name, username, acct, note and avatar; its id is the decimal string of
\* the account's numeric id (it parses back to that number, and distinct accounts
\* get distinct strings); the other account fields are the account's values; the
\* top-level lists value is the result of the remote lists call.
C11_OutputShape ==
    \A p \in Procs :
        (InfoSucceeded(p) /\ "json" \in DOMAIN inv[p].ret) =>
            LET out == inv[p].ret.json
                following == inv[p].drains[1].res
            IN  /\ Len(out.followers) = Len(following)
                /\ \A i \in 1..Len(out.followers) :
                    LET e == out.followers[i]
                    IN  /\ DOMAIN e = {"id", "lists", "display_name", "username",
                                       "acct", "note", "avatar"}
                        /\ e.id # <<>>
                        /\ \A k \in 1..Len(e.id) : \E d \in 1..10 : e.id[k] = Digit[d]
                        /\ ParseInt(e.id) = following[i].id
                        /\ \A k \in {"display_name", "username", "acct", "note", "avatar"} :
                            e[k] = following[i][k]
                        /\ \A j \in 1..Len(out.followers) :
                            following[i].id # following[j].id
                                => e.id # out.followers[j].id
                /\ out.lists = calls[p][2].result.ok

\* info has returned two followers with ids of different lengths, and a
\* non-empty lists value.
C11_Witness ==
    \E p \in Procs :
        /\ InfoSucceeded(p)
        /\ "json" \in DOMAIN inv[p].ret
        /\ inv[p].ret.json.lists # <<>>
        /\ \E i, j \in 1..Len(inv[p].ret.json.followers) :
            Len(inv[p].ret.json.followers[i].id) < Len(inv[p].ret.json.followers[j].id)

\* The fetches of the get_all of invocation p stop at the first page without a
\* cursor attribute, and only there.
StopsAtCursorlessPage(p) ==
    LET ga == inv[p].ga
        n == Len(ga.fetches)
    IN  /\ \A k \in 1..(n - 1) :
            ~IsFailure(ga.fetches[k].result) /\ HasCursor(ga.fetches[k].result)
        /\ ga.done <=>
            (n >= 1 /\ ~IsFailure(ga.fetches[n].result) /\ ~HasCursor(ga.fetches[n].result))

\* Invocation p is inside a get_all: between its first fetch and its return.
InGetAll(p) == pc[p] \in {"info_following", "info_list_accounts"}

\* Every get_all under way returns, unless a fetch raises: whenever an invocation
\* is inside the fetch loop, a moment comes when none is, each having left the loop
\* for its next step or for its end.  An invocation that stayed in the loop for
\* ever would falsify this.
GetAllReturns ==
    (\E p \in Procs : InGetAll(p)) ~> (\A p \in Procs : ~InGetAll(p))

\* C12: get_all fetches no page after one that carries no cursor attribute, goes
\* on after every page that carries one, and returns whenever the remote ends the
\* pages with a cursorless one.
C12_GetAllTerminates ==
    /\ [](\A p \in Procs : StopsAtCursorlessPage(p))
    /\ GetAllReturns

\* A get_all has returned after a page with a cursor and an empty page without one.
C12_Witness ==
    \E p \in Procs :
        /\ inv[p].ga.done
        /\ Len(inv[p].ga.fetches) = 2
        /\ inv[p].ga.fetches[2].result.items = <<>>
        /\ HasCursor(inv[p].ga.fetches[1].result)

\* C13: in info, once who-am-I has succeeded, a sub-call that raises is the last
\* sub-call of the invocation, which ends with that exception and without output:
\* a failed following fetch is followed by no lists call, a failed lists call by
\* no membership fetch, a failed membership fetch by no further fetch.
C13_InfoAborts ==
    \A p \in Procs :
        (inv[p].handler = "info" /\ Len(calls[p]) >= 1 /\ ~IsFailure(calls[p][1].result)) =>
            LET fetches == inv[p].ga.fetches
                n == Len(fetches)
            IN  /\ Len(calls[p]) <= 2
                /\ \A k \in 1..n : IsFailure(fetches[k].result) =>
                    /\ k = n
                    /\ pc[p] = "done"
                    /\ inv[p].ret = [raised |-> fetches[k].result.error]
                    /\ fetches[k].method = "account_following" =>
                        Len(calls[p]) = 1 /\ inv[p].drains = <<>>
                    /\ fetches[k].method = "list_accounts" =>
                        /\ Len(inv[p].drains) = inv[p].li
                        /\ fetches[k].args = <<inv[p].lists[inv[p].li].id>>
                /\ (Len(calls[p]) = 2 /\ IsFailure(calls[p][2].result)) =>
                    /\ pc[p] = "done"
                    /\ inv[p].ret = [raised |-> calls[p][2].result.error]
                    /\ Len(inv[p].drains) = 1
                    /\ \A k \in 1..n : fetches[k].method = "account_following"
                /\ "json" \in DOMAIN inv[p].ret =>
                    /\ fetches = <<>>
                    /\ ~IsFailure(calls[p][2].result)
                    /\ Len(inv[p].drains) = 1 + Len(inv[p].lists)

\* info has ended on a failure of the second page of a membership fetch, after
\* the following fetch and the lists call succeeded.
C13_Witness ==
    \E p \in Procs :
        /\ pc[p] = "done"
        /\ inv[p].handler = "info"
        /\ Len(inv[p].drains) >= 1
        /\ Len(inv[p].ga.fetches) = 2
        /\ IsFailure(inv[p].ga.fetches[2].result)
        /\ inv[p].ga.fetches[2].method = "list_accounts"
        /\ inv[p].followers # <<>>

\* The store accesses of the invocations: only a callback writes, and not one
\* that made no code exchange or whose code exchange failed.
OnlyCallbackWrites ==
    \A p \in Procs :
        /\ inv[p].handler # "callback" =>
            \A i \in 1..Len(dbcalls[p]) : dbcalls[p][i][1] = "get"
        /\ (inv[p].handler = "callback"
                /\ (calls[p] = <<>> \/ IsFailure(calls[p][1].result))) =>
            dbcalls[p] = <<>>

\* A step that changes the store is the write of a callback whose code exchange
\* succeeded; it adds one entry under a new identifier and leaves the others.
StoreWrite ==
    store' # store =>
        \E c \in Procs :
            /\ inv[c].handler = "callback"
            /\ pc[c] = "callback_set" /\ pc'[c] = "done"
            /\ calls[c][1].method = "log_in"
            /\ ~IsFailure(calls[c][1].result)
            /\ inv[c].cookie \notin DOMAIN store
            /\ DOMAIN store' = DOMAIN store \cup {inv[c].cookie}
            /\ \A k \in DOMAIN store : store'[k] = store[k]
            /\ store'[inv[c].cookie].token = calls[c][1].result.ok

\* C14: the session store is written only by a callback whose code exchange
\* succeeded; the other handlers and a failed callback leave it unchanged, and no
\* step deletes or overwrites the entry of an existing session identifier.
C14_StoreFrame == []OnlyCallbackWrites /\ [][StoreWrite]_vars

\* Two sessions have been stored, a callback's code exchange has failed, and
\* another handler has read the store.
C14_Witness ==
    /\ Cardinality(DOMAIN store) = 2
    /\ \E c, q \in Procs :
        /\ inv[c].handler = "callback" /\ pc[c] = "done"
        /\ calls[c] # <<>>
        /\ IsFailure(calls[c][1].result)
        /\ inv[q].handler \in AuthenticatedHandlers \cup {"auth"}
        /\ dbcalls[q] # <<>>

\* The name-to-value pairs of a cookie input: every ';'-separated piece of every
\* cookie string, split at its first '='.
CookiePairs(cookies) ==
    UNION {LET pieces == Split(cookies[i], ";")
           IN  {LET piece == LStrip(pieces[j])
                    eq == IndexOf(piece, "=", 1)
                IN  [name |-> SubSeq(piece, 1, eq - 1),
                     value |-> SubSeq(piece, eq + 1, Len(piece))] :
                j \in {k \in 1..Len(pieces) : IndexOf(LStrip(pieces[k]), "=", 1) > 0}} :
           i \in 1..Len(cookies)}

\* The values of the pairs named list-manager-cookie.
SessionValues(cookies) ==
    {pr.value : pr \in {x \in CookiePairs(cookies) : x.name = SessionCookieName}}

\* C15: for a cookie input that holds a pair named list-manager-cookie, at any
\* position and with or without a further '=' in a value, parsing raises no error
\* and the session cookie the handler resolves is that pair's full value.
C15_SessionResolution ==
    \A p \in Procs :
        (/\ inv[p].handler \in AuthenticatedHandlers \cup {"auth"}
         /\ "cookies" \in DOMAIN inv[p].event
         /\ SessionValues(inv[p].event.cookies) # {})
        => /\ inv[p].ret # [raised |-> "ValueError"]
           /\ inv[p].cookie \in SessionValues(inv[p].event.cookies)

\* The tokens of the remote calls invocation p has made, paged fetches included.
CallTokens(p) ==
    {calls[p][i].token : i \in 1..Len(calls[p])}
        \cup {inv[p].ga.fetches[i].token : i \in 1..Len(inv[p].ga.fetches)}
        \cup {inv[p].drains[i].token : i \in 1..Len(inv[p].drains)}

\* C16: every remote call of info and of the CRUD handlers carries the token the
\* store holds under the cookie the request presents, or no token when the store
\* has no entry for it; never the token of another session, never the
\* application's configured access token.
C16_OwnTokenOnly ==
    \A p \in Procs :
        inv[p].handler \in AuthenticatedHandlers =>
            \A t \in CallTokens(p) :
                /\ "cookies" \in DOMAIN inv[p].event
                /\ \E c \in SessionValues(inv[p].event.cookies) :
                    /\ SessionValues(inv[p].event.cookies) = {c}
                    /\ t = IF c \in DOMAIN store THEN store[c].token ELSE "None"
                    /\ \A k \in DOMAIN store \ {c} : t # store[k].token
                /\ t # "Config.access_token"

\* Two invocations overlap over two sessions: info has made its who-am-I call and a
\* drained fetch with the token of one, and a CRUD handler its mutation with the
\* token of the other.
C16_Witness ==
    \E p, q \in Procs :
        /\ inv[p].handler = "info"
        /\ inv[p].cookie \in DOMAIN store
        /\ Len(inv[p].drains) >= 1
        /\ inv[q].handler \in CrudHandlers
        /\ inv[q].cookie \in DOMAIN store
        /\ Len(calls[q]) = 1
        /\ calls[q][1].token # inv[p].token
        /\ store[inv[q].cookie].token = calls[q][1].token

=============================================================================
